---- MODULE Spec2Model ----
(***************************************************************************)
(* Model of app/__init__.py: the GTFS Poznan realtime service.             *)
(*                                                                         *)
(* The state is the cache directory (three downloaded files and the        *)
(* extracted GTFS tables), the global GTFSDataStore, the wall clock, the   *)
(* position of the one coroutine that can hold the event loop              *)
(* (fetch_and_process_data has no await, so it runs from start to end      *)
(* without yielding), the HTTP requests waiting for the loop and the       *)
(* background tasks that update_data enqueued.                             *)
(***************************************************************************)
EXTENDS Integers, Sequences, FiniteSets, TLC

(***************************************************************************)
(* Bounds of the model.                                                    *)
(***************************************************************************)
MaxRuns == 2        \* refresh runs started in one behaviour
MaxTicks == 1       \* clock advances in one behaviour of the service
MaxFetchTicks == 2  \* clock advances in one behaviour of the fetcher alone
MaxStops == 2       \* stop-time updates of an enumerated trip-update entity
MaxPending == 1     \* requests waiting for the event loop at one time
MaxEntities == 3    \* entities of an enumerated trip-updates feed
MaxVehicles == 2    \* entities of an enumerated vehicle-positions feed
MaxRows == 3        \* rows of an enumerated shapes.txt

(***************************************************************************)
(* Program constants.                                                      *)
(***************************************************************************)
RT_MAX_AGE == 10        \* max_age_seconds of the two realtime feeds
ZIP_MAX_AGE == 86400    \* max_age_seconds of the static archive
StartTime == 1          \* time.time() when the process starts (positive)

VEHICLE_POSITIONS_FILE == "vehicle_positions.pb"
TRIP_UPDATES_FILE == "trip_updates.pb"
GTFS_ZIP_FILE == "ZTMPoznanGTFS.zip"
CacheFiles == {VEHICLE_POSITIONS_FILE, TRIP_UPDATES_FILE, GTFS_ZIP_FILE}

\* Python's None for an optional value: <<>> is None, <<v>> is the value v.
None == <<>>
Some(v) == <<v>>


(***************************************************************************)
(* Python dicts: functions with a finite domain of keys.                   *)
(***************************************************************************)
EmptyDict == [k \in {} |-> 0]
DictPut(d, k, v) == [x \in (DOMAIN d) \cup {k} |-> IF x = k THEN v ELSE d[x]]
\* dict.get(k): None when the key is missing
DictGet(d, k) == IF k \in DOMAIN d THEN Some(d[k]) ELSE None

(***************************************************************************)
(* Text of a CSV cell: a sequence of characters, digits being 0..9.  int()  *)
(* and float() raise ValueError on a cell that is empty or holds anything   *)
(* else.                                                                   *)
(***************************************************************************)
IsNumber(cell) == Len(cell) > 0 /\ \A i \in 1..Len(cell) : cell[i] \in 0..9
RECURSIVE ParseNumber(_)
ParseNumber(cell) ==
    IF cell = <<>> THEN 0
    ELSE 10 * ParseNumber(SubSeq(cell, 1, Len(cell) - 1)) + cell[Len(cell)]

(***************************************************************************)
(* What the remote endpoints can answer.  A body is named by a string; the *)
(* operators below give the bytes' meaning.                                *)
(***************************************************************************)
\* rows of shapes.txt as csv.DictReader yields them
ShapeRow(id, lat, lon, seq) ==
    [shape_id |-> id, shape_pt_lat |-> lat, shape_pt_lon |-> lon,
     shape_pt_sequence |-> seq]
TripRow(t, s) == [trip_id |-> t, shape_id |-> s]

ZipBodies == {"zip_corrupt", "zip_A", "zip_B"}
IsZip(body) == body # "zip_corrupt"
\* the members of a well-formed archive: file name -> rows
ZipMembers(body) ==
    IF body = "zip_A" THEN
        [shapes_txt |-> << ShapeRow("s1", <<5>>, <<1>>, <<1, 0>>),
                           ShapeRow("s2", <<7>>, <<7>>, <<1>>),
                           ShapeRow("s1", <<4>>, <<2>>, <<9>>) >>,
         trips_txt |-> << TripRow("t1", "s1"), TripRow("t2", "s9") >>]
    ELSE
        [shapes_txt |-> << ShapeRow("s2", <<3>>, <<3>>, <<2>>),
                           ShapeRow("s2", <<6>>, <<6>>, <<2>>) >>,
         trips_txt |-> << TripRow("t1", "s2"), TripRow("t1", "s1"),
                          TripRow("t3", "s2") >>]

\* entities of a vehicle-positions FeedMessage
VehicleEntity(vid, route, trip, lat, lon) ==
    [has_vehicle |-> TRUE, vehicle_id |-> vid, route_id |-> route,
     trip_id |-> trip, latitude |-> lat, longitude |-> lon]
\* an entity without a vehicle payload: the fields read as protobuf defaults
OtherEntity ==
    [has_vehicle |-> FALSE, vehicle_id |-> "", route_id |-> "",
     trip_id |-> "", latitude |-> 0, longitude |-> 0]

VehicleBodies == {"vp_garbage", "vp_empty", "vp_A"}
\* a StopTimeEvent: absent, present without a delay, or present with one
NoEvent == [present |-> FALSE, has_delay |-> FALSE, delay |-> 0]
EventNoDelay == [present |-> TRUE, has_delay |-> FALSE, delay |-> 0]
EventDelay(d) == [present |-> TRUE, has_delay |-> TRUE, delay |-> d]
StopTimeUpdate(a, d) == [arrival |-> a, departure |-> d]
TripUpdateEntity(trip, stus) ==
    [has_trip_update |-> TRUE, trip_id |-> trip, stop_time_update |-> stus]
NoTripUpdateEntity ==
    [has_trip_update |-> FALSE, trip_id |-> "", stop_time_update |-> <<>>]

UpdateBodies == {"tu_garbage", "tu_A", "tu_B"}
IsFeed(body) == body \notin {"vp_garbage", "tu_garbage"}
\* FeedMessage.entity of a well-formed body
FeedEntities(body) ==
    CASE body = "vp_empty" -> <<>>
      [] body = "vp_A" ->
            << VehicleEntity("v1", "r1", "t1", 52, 16), OtherEntity,
               VehicleEntity("v2", "r2", "t2", 53, 17),
               VehicleEntity("v3", "r1", "t4", 54, 18) >>
      [] body = "tu_A" ->
            << TripUpdateEntity("t1", << StopTimeUpdate(EventDelay(60), EventDelay(30)),
                                         StopTimeUpdate(EventDelay(90), NoEvent) >>),
               NoTripUpdateEntity,
               TripUpdateEntity("t2", << StopTimeUpdate(EventNoDelay, EventDelay(42)) >>) >>
      [] body = "tu_B" ->
            << TripUpdateEntity("t1", << StopTimeUpdate(NoEvent, EventDelay(10)) >>),
               TripUpdateEntity("t1", << StopTimeUpdate(EventDelay(20), NoEvent) >>),
               TripUpdateEntity("t4", <<>>),
               TripUpdateEntity("t1", << StopTimeUpdate(NoEvent, EventNoDelay),
                                         StopTimeUpdate(EventDelay(5), NoEvent) >>) >>
      [] OTHER -> <<>>

Bodies(filepath) ==
    CASE filepath = VEHICLE_POSITIONS_FILE -> VehicleBodies
      [] filepath = TRIP_UPDATES_FILE -> UpdateBodies
      [] OTHER -> ZipBodies

(***************************************************************************)
(* Static tables: lines 180-202.                                           *)
(***************************************************************************)
\* line 187-189: float() and int() of the three numeric cells of every row
ShapeRowsParse(shapes) ==
    \A i \in 1..Len(shapes) :
        /\ IsNumber(shapes[i].shape_pt_lat)
        /\ IsNumber(shapes[i].shape_pt_lon)
        /\ IsNumber(shapes[i].shape_pt_sequence)

\* lines 186-190: the point a row appends to its shape's list
PointOfRow(row) ==
    [lat |-> ParseNumber(row.shape_pt_lat),
     lon |-> ParseNumber(row.shape_pt_lon),
     seq |-> ParseNumber(row.shape_pt_sequence)]

\* lines 181-190: group the rows by shape_id, in file order
RECURSIVE GroupShapes(_)
GroupShapes(shapes) ==
    IF shapes = <<>> THEN EmptyDict
    ELSE LET n == Len(shapes)
             d == GroupShapes(SubSeq(shapes, 1, n - 1))
             id == shapes[n].shape_id
             old == IF id \in DOMAIN d THEN d[id] ELSE <<>>
         IN  DictPut(d, id, Append(old, PointOfRow(shapes[n])))

\* list.sort(key=seq): insert p behind every element whose key is <= p's
\* (Python's sort is stable)
RECURSIVE InsertBySeq(_, _)
InsertBySeq(sorted, p) ==
    IF sorted = <<>> THEN <<p>>
    ELSE IF sorted[Len(sorted)].seq <= p.seq THEN Append(sorted, p)
    ELSE Append(InsertBySeq(SubSeq(sorted, 1, Len(sorted) - 1), p),
                sorted[Len(sorted)])

RECURSIVE SortBySeq(_)
SortBySeq(pts) ==
    IF pts = <<>> THEN <<>>
    ELSE InsertBySeq(SortBySeq(SubSeq(pts, 1, Len(pts) - 1)), pts[Len(pts)])

\* the index without the sort of lines 193-194
BuildShapesDict_Unsorted(shapes) ==
    GroupShapes(shapes)

\* lines 181-198: shape_id -> points sorted by shape_pt_sequence
BuildShapesDict(shapes) ==
    LET grouped == GroupShapes(shapes)
    IN  [id \in DOMAIN grouped |-> SortBySeq(grouped[id])]

\* line 202: a row without a shape_id column raises KeyError
TripRowsHaveKeys(rows) ==
    \A i \in 1..Len(rows) : {"trip_id", "shape_id"} \subseteq DOMAIN rows[i]

\* line 202: {trip['trip_id']: trip['shape_id'] for trip in trips}
RECURSIVE BuildTripShapeMap(_)
BuildTripShapeMap(rows) ==
    IF rows = <<>> THEN EmptyDict
    ELSE LET n == Len(rows)
         IN  DictPut(BuildTripShapeMap(SubSeq(rows, 1, n - 1)),
                     rows[n].trip_id, rows[n].shape_id)

(***************************************************************************)
(* Trip delays: lines 209-223.                                             *)
(***************************************************************************)
\* the two branches of lines 215-222 in the other order
EntityDelay_DepartureFirst(entity) ==
    IF ~entity.has_trip_update THEN None
    ELSE IF entity.stop_time_update = <<>> THEN None
    ELSE LET first == entity.stop_time_update[1]
         IN  IF first.departure.present /\ first.departure.has_delay
                 THEN Some(first.departure.delay)
             ELSE IF first.arrival.present /\ first.arrival.has_delay
                 THEN Some(first.arrival.delay)
             ELSE None

\* lines 211-222: what one entity writes into trip_delays: None or a delay
EntityDelay(entity) ==
    IF ~entity.has_trip_update THEN None
    ELSE IF entity.stop_time_update = <<>> THEN None
    ELSE LET first == entity.stop_time_update[1]
         IN  IF first.arrival.present /\ first.arrival.has_delay
                 THEN Some(first.arrival.delay)
             ELSE IF first.departure.present /\ first.departure.has_delay
                 THEN Some(first.departure.delay)
             ELSE None

\* a loop that keeps the first delay of a trip_id (dict.setdefault)
RECURSIVE BuildTripDelays_FirstWins(_)
BuildTripDelays_FirstWins(entities) ==
    IF entities = <<>> THEN EmptyDict
    ELSE LET n == Len(entities)
             d == BuildTripDelays_FirstWins(SubSeq(entities, 1, n - 1))
             delay == EntityDelay(entities[n])
         IN  IF delay = None \/ entities[n].trip_id \in DOMAIN d THEN d
             ELSE DictPut(d, entities[n].trip_id, delay[1])

\* lines 209-222: the loop over trip_update_feed.entity
RECURSIVE BuildTripDelays(_)
BuildTripDelays(entities) ==
    IF entities = <<>> THEN EmptyDict
    ELSE LET n == Len(entities)
             d == BuildTripDelays(SubSeq(entities, 1, n - 1))
             delay == EntityDelay(entities[n])
         IN  IF delay = None THEN d
             ELSE DictPut(d, entities[n].trip_id, delay[1])

(***************************************************************************)
(* Fusion: lines 226-250.                                                  *)
(***************************************************************************)
\* delay_seconds from trip_delays.get(trip_id, 0)
VehicleData_DefaultDelay(entity, delays, shape_map, shapes) ==
    LET shape_id == DictGet(shape_map, entity.trip_id)
        shape_points_raw ==
            IF shape_id # None /\ shape_id[1] \in DOMAIN shapes
                THEN shapes[shape_id[1]] ELSE <<>>
    IN  [vehicle_id |-> entity.vehicle_id,
         route_id |-> entity.route_id,
         trip_id |-> entity.trip_id,
         position |-> [latitude |-> entity.latitude,
                       longitude |-> entity.longitude],
         delay_seconds |-> IF entity.trip_id \in DOMAIN delays
                               THEN Some(delays[entity.trip_id]) ELSE Some(0),
         shape_id |-> shape_id,
         shape_points |-> shape_points_raw]

\* a shape that is not in the index is drawn with the points of some shape
\* that is
VehicleData_FallbackShape(entity, delays, shape_map, shapes) ==
    LET shape_id == DictGet(shape_map, entity.trip_id)
        shape_points_raw ==
            IF shape_id # None /\ shape_id[1] \in DOMAIN shapes
                THEN shapes[shape_id[1]]
            ELSE IF DOMAIN shapes # {}
                THEN shapes[CHOOSE id \in DOMAIN shapes : TRUE]
            ELSE <<>>
    IN  [vehicle_id |-> entity.vehicle_id,
         route_id |-> entity.route_id,
         trip_id |-> entity.trip_id,
         position |-> [latitude |-> entity.latitude,
                       longitude |-> entity.longitude],
         delay_seconds |-> DictGet(delays, entity.trip_id),
         shape_id |-> shape_id,
         shape_points |-> shape_points_raw]

\* lines 229-249: the VehicleData of one entity that has a vehicle payload
VehicleData(entity, delays, shape_map, shapes) ==
    LET shape_id == DictGet(shape_map, entity.trip_id)
        shape_points_raw ==
            IF shape_id # None /\ shape_id[1] \in DOMAIN shapes
                THEN shapes[shape_id[1]] ELSE <<>>
    IN  [vehicle_id |-> entity.vehicle_id,
         route_id |-> entity.route_id,
         trip_id |-> entity.trip_id,
         position |-> [latitude |-> entity.latitude,
                       longitude |-> entity.longitude],
         delay_seconds |-> DictGet(delays, entity.trip_id),
         shape_id |-> shape_id,
         shape_points |-> shape_points_raw]

\* a loop that skips a vehicle whose trip has no shape
RECURSIVE BuildVehiclePositions_DropsUnmapped(_, _, _, _)
BuildVehiclePositions_DropsUnmapped(entities, delays, shape_map, shapes) ==
    IF entities = <<>> THEN <<>>
    ELSE LET n == Len(entities)
             rest == BuildVehiclePositions_DropsUnmapped(
                         SubSeq(entities, 1, n - 1), delays, shape_map, shapes)
         IN  IF entities[n].has_vehicle /\ entities[n].trip_id \in DOMAIN shape_map
                 THEN Append(rest, VehicleData(entities[n], delays, shape_map, shapes))
                 ELSE rest

\* lines 226-250: the loop over vehicle_feed.entity
RECURSIVE BuildVehiclePositions(_, _, _, _)
BuildVehiclePositions(entities, delays, shape_map, shapes) ==
    IF entities = <<>> THEN <<>>
    ELSE LET n == Len(entities)
             rest == BuildVehiclePositions(SubSeq(entities, 1, n - 1),
                                           delays, shape_map, shapes)
         IN  IF entities[n].has_vehicle
                 THEN Append(rest, VehicleData(entities[n], delays, shape_map, shapes))
                 ELSE rest

(***************************************************************************)
(* State.                                                                  *)
(***************************************************************************)
VARIABLES
    now,                \* time.time(), in seconds
    ticks,              \* clock advances so far
    files,              \* cache: filepath -> None | Some([mtime, body])
    gtfs_dir,           \* cache/gtfs: None | Some(members of the last archive extracted)
    shapes_dict,        \* data_store.shapes_dict
    trips,              \* data_store.trips
    trip_shape_map,     \* data_store.trip_shape_map
    trip_delays,        \* data_store.trip_delays
    vehicle_positions,  \* data_store.vehicle_positions
    last_updated,       \* data_store.last_updated: None | Some(time)
    phase,              \* "starting" | "serving" | "exited"
    pc,                 \* position of fetch_and_process_data, "idle" when none runs
    caller,             \* who awaits the running coroutine: "startup" | "background"
    vehicle_feed,       \* local of the run
    trip_update_feed,   \* local of the run
    background_tasks,   \* tasks update_data enqueued that have not started
    pending,            \* requests waiting for the event loop: a bag of kinds
    response,           \* the last response a read handler returned
    acks,               \* history: 202 responses update_data has returned
    tasks,              \* history: tasks update_data has enqueued
    calls,              \* history: filepath -> the last two fetch_file calls for it
    run,                \* history: what the current (or last) run did
    written,            \* history: which run assigned the two fields reads return
    runs                \* history: refresh runs started

store == <<shapes_dict, trips, trip_shape_map, trip_delays, vehicle_positions,
           last_updated>>
cache == <<files, gtfs_dir>>
locals == <<vehicle_feed, trip_update_feed>>
clock == <<now, ticks>>
http == <<pending, response, acks, tasks>>
vars == <<now, ticks, files, gtfs_dir, shapes_dict, trips, trip_shape_map,
          trip_delays, vehicle_positions, last_updated, phase, pc, caller,
          vehicle_feed, trip_update_feed, background_tasks, pending, response,
          acks, tasks, calls, run, written, runs>>

\* the data store as one value
StoreValue ==
    [shapes_dict |-> shapes_dict, trips |-> trips,
     trip_shape_map |-> trip_shape_map, trip_delays |-> trip_delays,
     vehicle_positions |-> vehicle_positions, last_updated |-> last_updated]

\* lines 52-59: GTFSDataStore.__init__
GTFSDataStore ==
    [shapes_dict |-> EmptyDict, trips |-> <<>>, trip_shape_map |-> EmptyDict,
     trip_delays |-> EmptyDict, vehicle_positions |-> <<>>, last_updated |-> None]

\* history of a run: its number, the background task it is (0: startup), how it
\* ended, the store when it began (while it runs), the store's fields that differ
\* at its end from that, how the run before it ended, and what its fetch_file
\* call for the archive did
NoRun ==
    [id |-> 0, task |-> 0, outcome |-> "none", before |-> GTFSDataStore,
     changed |-> {}, prev |-> "none", zip_call |-> "none"]
\* history: the run that assigned vehicle_positions, and last_updated
NeverWritten == [vehicle_positions |-> 0, last_updated |-> 0]
\* a response, with (history) the runs whose values the store held when it was made
NoResponse == [kind |-> "none", status |-> 0, body |-> <<>>, written |-> NeverWritten]
ReadKinds == {"vehicles", "data_status"}
RequestKinds == ReadKinds \cup {"update_data"}

\* the process starts: module import (lines 24-61), nothing cached yet
Start ==
    /\ now = StartTime
    /\ ticks = 0
    /\ files = [f \in CacheFiles |-> None]
    /\ gtfs_dir = None
    /\ shapes_dict = GTFSDataStore.shapes_dict
    /\ trips = GTFSDataStore.trips
    /\ trip_shape_map = GTFSDataStore.trip_shape_map
    /\ trip_delays = GTFSDataStore.trip_delays
    /\ vehicle_positions = GTFSDataStore.vehicle_positions
    /\ last_updated = GTFSDataStore.last_updated
    /\ phase = "starting"
    /\ pc = "idle"
    /\ caller = "startup"
    /\ vehicle_feed = <<>>
    /\ trip_update_feed = <<>>
    /\ background_tasks = 0
    /\ pending = [k \in RequestKinds |-> 0]
    /\ response = NoResponse
    /\ acks = 0
    /\ tasks = 0
    /\ run = NoRun
    /\ written = NeverWritten
    /\ runs = 0

Init ==
    /\ Start
    /\ calls = EmptyDict

(***************************************************************************)
(* The clock, and fetch_file (lines 64-88).                                *)
(***************************************************************************)
\* The clock advances between runs: a run is short against the max ages.
Tick(d, limit) ==
    /\ pc = "idle"
    /\ ticks < limit
    /\ now' = now + d
    /\ ticks' = ticks + 1
    /\ UNCHANGED <<cache, store, phase, pc, caller, locals, background_tasks,
                   http, calls, run, written, runs>>

\* the age comparison turned around
IsFresh_Inverted(filepath, max_age_seconds) ==
    /\ files[filepath] # None
    /\ now - files[filepath][1].mtime > max_age_seconds

\* lines 74-76: the file exists and is younger than max_age_seconds
IsFresh(filepath, max_age_seconds) ==
    /\ files[filepath] # None
    /\ now - files[filepath][1].mtime < max_age_seconds

\* lines 74-88.  result is how the call ends: "fresh" (the early return of line
\* 78), "raised" (RequestException: no connection, timeout, raise_for_status on
\* a non-2xx answer) or "written" (one of the bodies was answered and saved).
FetchResults == {"fresh", "raised", "written"}

\* a fetch_file that downloads and does not save the body
fetch_file_NoWrite(filepath, max_age_seconds, result) ==
    IF IsFresh(filepath, max_age_seconds)
    THEN /\ result = "fresh"
         /\ files' = files
    ELSE /\ result \in {"raised", "written"}
         /\ files' = files

\* a fetch_file that opens filepath for writing before it requests the url: a
\* failed request leaves an empty file with a new mtime
fetch_file_OpensFirst(filepath, max_age_seconds, result) ==
    IF IsFresh(filepath, max_age_seconds)
    THEN /\ result = "fresh"
         /\ files' = files
    ELSE \/ /\ result = "raised"
            /\ files' = [files EXCEPT
                             ![filepath] = Some([mtime |-> now, body |-> ""])]
         \/ /\ result = "written"
            /\ \E body \in Bodies(filepath) :
                  files' = [files EXCEPT
                               ![filepath] = Some([mtime |-> now, body |-> body])]

fetch_file(filepath, max_age_seconds, result) ==
    IF IsFresh(filepath, max_age_seconds)
    THEN /\ result = "fresh"
         /\ files' = files
    ELSE \/ /\ result = "raised"
            /\ files' = files
         \/ /\ result = "written"
            /\ \E body \in Bodies(filepath) :
                  files' = [files EXCEPT
                               ![filepath] = Some([mtime |-> now, body |-> body])]

MaxAgeOf(filepath) ==
    IF filepath = GTFS_ZIP_FILE THEN ZIP_MAX_AGE ELSE RT_MAX_AGE

(***************************************************************************)
(* fetch_and_process_data (lines 150-260), one action per stage.  The      *)
(* coroutine never awaits: from Begin to the end of the run it holds the   *)
(* event loop.                                                             *)
(***************************************************************************)
StoreFields ==
    {"shapes_dict", "trips", "trip_shape_map", "trip_delays",
     "vehicle_positions", "last_updated"}
Changed(before, after) == {f \in StoreFields : before[f] # after[f]}

\* a run that begins whatever the event loop is in the middle of
Begin_Preempts(who, task) ==
    /\ runs < MaxRuns
    /\ pc' = "fetch_vehicle_positions"
    /\ caller' = who
    /\ runs' = runs + 1
    /\ run' = [id |-> runs + 1, task |-> task, outcome |-> "running",
               before |-> StoreValue, changed |-> {}, prev |-> run.outcome,
               zip_call |-> "none"]

\* line 150: the coroutine starts when the event loop is free
Begin(who, task) ==
    /\ pc = "idle"
    /\ runs < MaxRuns
    /\ pc' = "fetch_vehicle_positions"
    /\ caller' = who
    /\ runs' = runs + 1
    /\ run' = [id |-> runs + 1, task |-> task, outcome |-> "running",
               before |-> StoreValue, changed |-> {}, prev |-> run.outcome,
               zip_call |-> "none"]

\* a startup_event that catches the exception and lets the server start
PhaseAfter_Swallows(who, outcome) ==
    IF who = "startup" THEN "serving" ELSE phase

\* line 270: startup_event awaits the run and does not catch: an exception
\* ends the process before it serves; a return lets the server start serving.
\* A background task's exception is logged by the server, which goes on.
PhaseAfter(who, outcome) ==
    IF who = "startup"
        THEN (IF outcome = "ok" THEN "serving" ELSE "exited")
        ELSE phase

\* the coroutine ends: by return (outcome "ok", line 253) or by the
\* HTTPException of lines 255-260
End(outcome, r) ==
    /\ pc' = "idle"
    /\ run' = [r EXCEPT !.outcome = outcome,
                        !.changed = Changed(r.before, StoreValue'),
                        !.before = GTFSDataStore]
    /\ phase' = PhaseAfter(caller, outcome)
    /\ vehicle_feed' = <<>>
    /\ trip_update_feed' = <<>>

Continue(next, r) ==
    /\ pc' = next
    /\ run' = r
    /\ phase' = phase

\* lines 158, 159, 162
FetchStage(stage, filepath, next) ==
    /\ pc = stage
    /\ UNCHANGED <<gtfs_dir, store, clock, caller, background_tasks, http, calls,
                   written, runs>>
    /\ \E result \in FetchResults :
          /\ fetch_file(filepath, MaxAgeOf(filepath), result)
          /\ LET r == IF filepath = GTFS_ZIP_FILE
                          THEN [run EXCEPT !.zip_call = result] ELSE run
             IN  IF result = "raised"
                     THEN End("FetchError", r)
                     ELSE Continue(next, r) /\ UNCHANGED locals

FetchVehiclePositions ==
    FetchStage("fetch_vehicle_positions", VEHICLE_POSITIONS_FILE, "fetch_trip_updates")
FetchTripUpdates ==
    FetchStage("fetch_trip_updates", TRIP_UPDATES_FILE, "fetch_zip")
FetchZip ==
    FetchStage("fetch_zip", GTFS_ZIP_FILE, "extract")

\* an Extract that raises on a corrupt archive and leaves the file in the cache
Extract_KeepsCorrupt ==
    /\ pc = "extract"
    /\ UNCHANGED <<store, clock, caller, background_tasks, http, calls, written,
                   runs>>
    /\ LET body == files[GTFS_ZIP_FILE][1].body
       IN  IF IsZip(body)
           THEN /\ gtfs_dir' = Some(ZipMembers(body))
                /\ files' = files
                /\ Continue("load_static", run)
                /\ UNCHANGED locals
           ELSE /\ files' = files
                /\ gtfs_dir' = gtfs_dir
                /\ End("BadZipFile", run)

\* lines 163-174: extractall, or os.remove of an archive that is no zip file
Extract ==
    /\ pc = "extract"
    /\ UNCHANGED <<store, clock, caller, background_tasks, http, calls, written,
                   runs>>
    /\ LET body == files[GTFS_ZIP_FILE][1].body
       IN  IF IsZip(body)
           THEN /\ gtfs_dir' = Some(ZipMembers(body))
                /\ files' = files
                /\ Continue("load_static", run)
                /\ UNCHANGED locals
           ELSE /\ files' = [files EXCEPT ![GTFS_ZIP_FILE] = None]
                /\ gtfs_dir' = gtfs_dir
                /\ End("BadZipFile", run)

\* lines 177-202: both tables are read, then the store's static fields are
\* assigned one after the other
LoadStatic ==
    /\ pc = "load_static"
    /\ UNCHANGED <<cache, trip_delays, vehicle_positions, last_updated, clock,
                   caller, background_tasks, http, calls, written, runs>>
    /\ LET shapes == gtfs_dir[1].shapes_txt
           rows == gtfs_dir[1].trips_txt
       IN  IF ~ShapeRowsParse(shapes)
           THEN /\ UNCHANGED <<shapes_dict, trips, trip_shape_map>>
                /\ End("ParseError", run)
           ELSE /\ shapes_dict' = BuildShapesDict(shapes)
                /\ trips' = rows
                /\ IF ~TripRowsHaveKeys(rows)
                      THEN /\ UNCHANGED trip_shape_map
                           /\ End("ParseError", run)
                      ELSE /\ trip_shape_map' = BuildTripShapeMap(rows)
                           /\ Continue("load_feeds", run)
                           /\ UNCHANGED locals

\* a load_feed that logs the parse error and returns an empty FeedMessage
LoadFeeds_Swallows ==
    /\ pc = "load_feeds"
    /\ UNCHANGED <<cache, store, clock, caller, background_tasks, http, calls,
                   written, runs>>
    /\ LET vp == files[VEHICLE_POSITIONS_FILE][1].body
           tu == files[TRIP_UPDATES_FILE][1].body
       IN  /\ vehicle_feed' = IF IsFeed(vp) THEN FeedEntities(vp) ELSE <<>>
           /\ trip_update_feed' = IF IsFeed(tu) THEN FeedEntities(tu) ELSE <<>>
           /\ Continue("trip_delays", run)

\* lines 205-206 (load_feed, lines 125-147): ParseFromString raises on bytes
\* that are no FeedMessage
LoadFeeds ==
    /\ pc = "load_feeds"
    /\ UNCHANGED <<cache, store, clock, caller, background_tasks, http, calls,
                   written, runs>>
    /\ LET vp == files[VEHICLE_POSITIONS_FILE][1].body
           tu == files[TRIP_UPDATES_FILE][1].body
       IN  IF IsFeed(vp) /\ IsFeed(tu)
           THEN /\ vehicle_feed' = FeedEntities(vp)
                /\ trip_update_feed' = FeedEntities(tu)
                /\ Continue("trip_delays", run)
           ELSE End("ParseError", run)

\* a run that builds the vehicle list in place: the store's list is emptied
\* before the loop of line 227 fills it
TripDelays_ClearsList ==
    /\ pc = "trip_delays"
    /\ trip_delays' = BuildTripDelays(trip_update_feed)
    /\ vehicle_positions' = <<>>
    /\ Continue("vehicle_positions", run)
    /\ UNCHANGED <<cache, shapes_dict, trips, trip_shape_map,
                   last_updated, clock, caller, locals, background_tasks, http,
                   calls, written, runs>>

\* lines 209-223
TripDelays ==
    /\ pc = "trip_delays"
    /\ trip_delays' = BuildTripDelays(trip_update_feed)
    /\ Continue("vehicle_positions", run)
    /\ UNCHANGED <<cache, shapes_dict, trips, trip_shape_map, vehicle_positions,
                   last_updated, clock, caller, locals, background_tasks, http,
                   calls, written, runs>>

\* lines 226-251
VehiclePositions ==
    /\ pc = "vehicle_positions"
    /\ vehicle_positions' =
          BuildVehiclePositions(vehicle_feed, trip_delays, trip_shape_map, shapes_dict)
    /\ written' = [written EXCEPT !.vehicle_positions = run.id]
    /\ Continue("last_updated", run)
    /\ UNCHANGED <<cache, shapes_dict, trips, trip_shape_map, trip_delays,
                   last_updated, clock, caller, locals, background_tasks, http,
                   calls, runs>>

\* lines 252-253, and the return to the awaiting caller
LastUpdated ==
    /\ pc = "last_updated"
    /\ last_updated' = Some(now)
    /\ written' = [written EXCEPT !.last_updated = run.id]
    /\ UNCHANGED <<cache, shapes_dict, trips, trip_shape_map, trip_delays,
                   vehicle_positions, clock, caller, background_tasks, http,
                   calls, runs>>
    /\ End("ok", run)

(***************************************************************************)
(* The server: startup, the handlers, the background tasks.                *)
(***************************************************************************)
\* a handler that could run while a refresh is between two of its lines
LoopFree_Always == TRUE

\* The handlers and fetch_and_process_data are coroutines of one event loop,
\* and fetch_and_process_data has no await (lines 150-260): nothing else runs
\* while a refresh is between its first and its last line.
LoopFree == pc = "idle"

\* lines 263-271: await fetch_and_process_data() before any request is served
startup_event ==
    /\ phase = "starting"
    /\ Begin("startup", 0)
    /\ UNCHANGED <<cache, store, clock, phase, locals, background_tasks, http,
                   calls, written>>

\* a client sends GET /vehicles, GET /data_status or POST /update_data to the
\* listening server, whatever the event loop is doing
Arrive(kind) ==
    /\ phase = "serving"
    /\ pending["vehicles"] + pending["data_status"] + pending["update_data"]
          < MaxPending
    /\ kind = "update_data" =>
          runs + background_tasks + pending["update_data"] < MaxRuns
    /\ pending' = [pending EXCEPT ![kind] = @ + 1]
    /\ UNCHANGED <<cache, store, clock, phase, pc, caller, locals,
                   background_tasks, response, acks, tasks, calls, run, written,
                   runs>>

\* a waiting request gets the event loop and is answered
Handle(kind, answer) ==
    /\ phase = "serving"
    /\ LoopFree
    /\ pending[kind] > 0
    /\ pending' = [pending EXCEPT ![kind] = @ - 1]
    /\ response' = answer
    /\ UNCHANGED <<cache, store, clock, phase, pc, caller, locals,
                   background_tasks, acks, tasks, calls, run, written, runs>>

\* lines 286-288: an empty list is false in `if not data_store.vehicle_positions`
VehiclesAnswer ==
    IF vehicle_positions = <<>>
        THEN [kind |-> "vehicles", status |-> 404, body |-> <<>>,
              written |-> written]
        ELSE [kind |-> "vehicles", status |-> 200, body |-> vehicle_positions,
              written |-> written]

\* lines 281-288
get_vehicle_positions == Handle("vehicles", VehiclesAnswer)

\* time.ctime: the text of a time
ctime(t) == <<"ctime", t>>

\* lines 305-307: None and 0 are both false in `if data_store.last_updated`
StatusAnswer ==
    IF last_updated # None /\ last_updated[1] # 0
        THEN [kind |-> "data_status", status |-> 200,
              body |-> Some(ctime(last_updated[1])), written |-> written]
        ELSE [kind |-> "data_status", status |-> 200, body |-> None,
              written |-> written]

\* lines 300-307
get_data_status == Handle("data_status", StatusAnswer)

\* an update_data that awaits fetch_and_process_data() itself: the run starts
\* inside the handler, before any response
update_data_Awaits ==
    /\ phase = "serving"
    /\ pending["update_data"] > 0
    /\ pending' = [pending EXCEPT !["update_data"] = @ - 1]
    /\ tasks' = tasks + 1
    /\ Begin("background", tasks + 1)
    /\ UNCHANGED <<cache, store, clock, phase, locals, background_tasks,
                   response, acks, calls, written>>

\* lines 290-298: add the task, return; the 202 goes out before the server
\* runs the task
update_data ==
    /\ phase = "serving"
    /\ LoopFree
    /\ pending["update_data"] > 0
    /\ pending' = [pending EXCEPT !["update_data"] = @ - 1]
    /\ background_tasks' = background_tasks + 1
    /\ tasks' = tasks + 1
    /\ acks' = acks + 1
    /\ UNCHANGED <<cache, store, clock, phase, pc, caller, locals,
                   response, calls, run, written, runs>>

\* the server runs an enqueued task once the response has gone out
run_background_task ==
    /\ phase = "serving"
    /\ background_tasks > 0
    /\ Begin("background", tasks - background_tasks + 1)
    /\ background_tasks' = background_tasks - 1
    /\ UNCHANGED <<cache, store, clock, phase, locals, http, calls, written>>

\* the process is started again after it exited: a new data store (line 61),
\* the cache directory as it was left
Restart ==
    /\ phase = "exited"
    /\ runs < MaxRuns
    /\ phase' = "starting"
    /\ shapes_dict' = GTFSDataStore.shapes_dict
    /\ trips' = GTFSDataStore.trips
    /\ trip_shape_map' = GTFSDataStore.trip_shape_map
    /\ trip_delays' = GTFSDataStore.trip_delays
    /\ vehicle_positions' = GTFSDataStore.vehicle_positions
    /\ last_updated' = GTFSDataStore.last_updated
    /\ written' = NeverWritten
    /\ UNCHANGED <<cache, clock, pc, caller, locals, background_tasks, http,
                   calls, run, runs>>

ServiceTicks == {RT_MAX_AGE, ZIP_MAX_AGE}

Next ==
    \/ startup_event
    \/ FetchVehiclePositions
    \/ FetchTripUpdates
    \/ FetchZip
    \/ Extract
    \/ LoadStatic
    \/ LoadFeeds
    \/ TripDelays
    \/ VehiclePositions
    \/ LastUpdated
    \/ \E kind \in RequestKinds : Arrive(kind)
    \/ get_vehicle_positions
    \/ get_data_status
    \/ update_data
    \/ run_background_task
    \/ Restart
    \/ \E d \in ServiceTicks : Tick(d, MaxTicks)

Spec == Init /\ [][Next]_vars

(***************************************************************************)
(* The fetcher alone: fetch_file called for any of the three files at any  *)
(* time, the clock, and the removal of an archive found corrupt.           *)
(***************************************************************************)
\* history of one call: when, with which max age, the cache slot before and
\* after, how the call ended, whether the file was deleted afterwards
CallRecord(max_age_seconds, before, after, result) ==
    [at |-> now, max_age |-> max_age_seconds, before |-> before,
     after |-> after, result |-> result, removed |-> FALSE]

Call(filepath) ==
    /\ pc = "idle"
    /\ filepath \in DOMAIN calls
    /\ \E result \in FetchResults :
          /\ fetch_file(filepath, MaxAgeOf(filepath), result)
          /\ LET rec == CallRecord(MaxAgeOf(filepath), files[filepath],
                                   files'[filepath], result)
             IN  calls' = [calls EXCEPT ![filepath] =
                              IF @ = <<>> THEN <<rec>> ELSE <<@[Len(@)], rec>>]
    /\ UNCHANGED <<gtfs_dir, store, clock, phase, pc, caller, locals,
                   background_tasks, http, run, written, runs>>

\* lines 167-170: os.remove of the archive that is no zip file
RemoveArchive ==
    /\ GTFS_ZIP_FILE \in DOMAIN calls
    /\ files[GTFS_ZIP_FILE] # None
    /\ ~IsZip(files[GTFS_ZIP_FILE][1].body)
    /\ files' = [files EXCEPT ![GTFS_ZIP_FILE] = None]
    /\ calls' = [calls EXCEPT ![GTFS_ZIP_FILE] =
                    [i \in DOMAIN @ |->
                        IF i = Len(@) THEN [@[i] EXCEPT !.removed = TRUE] ELSE @[i]]]
    /\ UNCHANGED <<gtfs_dir, store, clock, phase, pc, caller, locals,
                   background_tasks, http, run, written, runs>>

FetchTicks == {1, RT_MAX_AGE - 1, ZIP_MAX_AGE - 1}

NextFetch ==
    \/ \E filepath \in CacheFiles : Call(filepath)
    \/ RemoveArchive
    \/ \E d \in FetchTicks : Tick(d, MaxFetchTicks)

\* the calls of one behaviour are all for one url and filepath
InitFetch ==
    /\ Start
    /\ \E filepath \in CacheFiles : calls = [f \in {filepath} |-> <<>>]

SpecFetch == InitFetch /\ [][NextFetch]_vars

(***************************************************************************)
(* The trip-delay loop alone (lines 209-223), on a feed of one entity      *)
(* drawn from every shape an entity can have.                              *)
(***************************************************************************)
ArrivalEvents == {NoEvent, EventNoDelay, EventDelay(60)}
DepartureEvents == {NoEvent, EventNoDelay, EventDelay(42)}
StopTimeUpdates ==
    {StopTimeUpdate(a, d) : a \in ArrivalEvents, d \in DepartureEvents}
StopSequences ==
    UNION {[1..n -> StopTimeUpdates] : n \in 0..MaxStops}
UpdateEntities ==
    {NoTripUpdateEntity} \cup
    {TripUpdateEntity(t, stus) : t \in {"t1", "t2"}, stus \in StopSequences}

\* line 209 of a startup run whose trip_updates.pb parsed to one entity
InitEntity ==
    /\ \E entity \in UpdateEntities : trip_update_feed = <<entity>>
    /\ pc = "trip_delays"
    /\ run = [NoRun EXCEPT !.id = 1, !.outcome = "running"]
    /\ runs = 1
    /\ now = StartTime
    /\ ticks = 0
    /\ files = [f \in CacheFiles |-> None]
    /\ gtfs_dir = None
    /\ shapes_dict = GTFSDataStore.shapes_dict
    /\ trips = GTFSDataStore.trips
    /\ trip_shape_map = GTFSDataStore.trip_shape_map
    /\ trip_delays = GTFSDataStore.trip_delays
    /\ vehicle_positions = GTFSDataStore.vehicle_positions
    /\ last_updated = GTFSDataStore.last_updated
    /\ phase = "starting"
    /\ caller = "startup"
    /\ vehicle_feed = <<>>
    /\ background_tasks = 0
    /\ pending = [k \in RequestKinds |-> 0]
    /\ response = NoResponse
    /\ acks = 0
    /\ tasks = 0
    /\ calls = EmptyDict
    /\ written = NeverWritten

NextEntity == TripDelays

SpecEntity == InitEntity /\ [][NextEntity]_vars

(***************************************************************************)
(* The trip-delay loop alone (lines 209-223), on feeds of several entities *)
(* that share trip ids.                                                    *)
(***************************************************************************)
\* a startup run that has reached `stage`: everything but the cache, the
\* store's static fields and the run's locals, which the stage reads
Midrun(stage) ==
    /\ pc = stage
    /\ run = [NoRun EXCEPT !.id = 1, !.outcome = "running"]
    /\ runs = 1
    /\ now = StartTime
    /\ ticks = 0
    /\ vehicle_positions = GTFSDataStore.vehicle_positions
    /\ last_updated = GTFSDataStore.last_updated
    /\ phase = "starting"
    /\ caller = "startup"
    /\ background_tasks = 0
    /\ pending = [k \in RequestKinds |-> 0]
    /\ response = NoResponse
    /\ acks = 0
    /\ tasks = 0
    /\ calls = EmptyDict
    /\ written = NeverWritten

\* what one entity of the feed can be, as far as lines 211-222 look at it
FeedUpdateEntities ==
    {NoTripUpdateEntity} \cup
    {TripUpdateEntity(t, stus) :
        t \in {"t1", "t2"},
        stus \in {<<>>,
                  << StopTimeUpdate(EventDelay(10), NoEvent) >>,
                  << StopTimeUpdate(EventDelay(20), EventDelay(30)) >>,
                  << StopTimeUpdate(EventNoDelay, EventDelay(0)) >>,
                  << StopTimeUpdate(EventNoDelay, NoEvent),
                     StopTimeUpdate(EventDelay(10), NoEvent) >>}}
UpdateFeeds == UNION {[1..n -> FeedUpdateEntities] : n \in 0..MaxEntities}

\* line 209 of a startup run whose trip_updates.pb parsed to the feed
InitDelays ==
    /\ Midrun("trip_delays")
    /\ trip_update_feed \in UpdateFeeds
    /\ vehicle_feed = <<>>
    /\ files = [f \in CacheFiles |-> None]
    /\ gtfs_dir = None
    /\ shapes_dict = GTFSDataStore.shapes_dict
    /\ trips = GTFSDataStore.trips
    /\ trip_shape_map = GTFSDataStore.trip_shape_map
    /\ trip_delays = GTFSDataStore.trip_delays

NextDelays == TripDelays

SpecDelays == InitDelays /\ [][NextDelays]_vars

(***************************************************************************)
(* The fusion loop and the store update alone (lines 226-253), on          *)
(* enumerated vehicle feeds, delay maps and static indexes.                *)
(***************************************************************************)
FuseEntities ==
    {OtherEntity} \cup
    {VehicleEntity(v, "r1", t, 52, 16) : v \in {"v1", "v2"}, t \in {"", "t1", "t2"}}
VehicleFeeds == UNION {[1..n -> FuseEntities] : n \in 0..MaxVehicles}
\* trip_delays as line 223 can leave it
DelayMaps ==
    {EmptyDict, [t \in {"t1"} |-> 0], [t \in {"t1", "t2"} |-> IF t = "t1" THEN 60 ELSE 5]}
\* trip_shape_map as line 202 can leave it
ShapeMaps ==
    {EmptyDict, [t \in {"t1"} |-> "s1"],
     [t \in {"t1", "t2"} |-> IF t = "t1" THEN "s1" ELSE "s9"],
     [t \in {"t1", "t2"} |-> IF t = "t1" THEN "s2" ELSE "s1"]}
\* shapes_dict as lines 181-198 can leave it: lists not empty, sorted by seq
ShapeDicts ==
    {EmptyDict,
     [id \in {"s1"} |-> << [lat |-> 5, lon |-> 1, seq |-> 1],
                           [lat |-> 4, lon |-> 2, seq |-> 9] >>],
     [id \in {"s1", "s2"} |->
         IF id = "s1" THEN << [lat |-> 5, lon |-> 1, seq |-> 1],
                              [lat |-> 4, lon |-> 2, seq |-> 9] >>
                      ELSE << [lat |-> 7, lon |-> 7, seq |-> 1] >>]}

\* line 226 of a startup run
InitFuse ==
    /\ Midrun("vehicle_positions")
    /\ vehicle_feed \in VehicleFeeds
    /\ trip_update_feed = <<>>
    /\ trip_delays \in DelayMaps
    /\ trip_shape_map \in ShapeMaps
    /\ shapes_dict \in ShapeDicts
    /\ trips = <<>>
    /\ files = [f \in CacheFiles |-> None]
    /\ gtfs_dir = None

NextFuse ==
    \/ VehiclePositions
    \/ LastUpdated

SpecFuse == InitFuse /\ [][NextFuse]_vars

(***************************************************************************)
(* The load of the static tables alone (lines 177-202), on enumerated      *)
(* shapes.txt files.                                                       *)
(***************************************************************************)
\* the cells of a row: a sequence number can be 1, 2, 10 or an empty cell
ShapeRows ==
    {ShapeRow(id, lat, <<3>>, seq) :
        id \in {"s1", "s2"}, lat \in {<<1>>, <<2>>},
        seq \in {<<1>>, <<2>>, <<1, 0>>, <<>>}}
ShapeTables == UNION {[1..n -> ShapeRows] : n \in 0..MaxRows}
\* trips.txt with and without a shape_id column
TripTables == {<< TripRow("t1", "s1") >>, << [trip_id |-> "t1"] >>}

\* line 177 of a startup run that has extracted an archive
InitShapes ==
    /\ Midrun("load_static")
    /\ \E shapes \in ShapeTables, rows \in TripTables :
          gtfs_dir = Some([shapes_txt |-> shapes, trips_txt |-> rows])
    /\ files = [f \in CacheFiles |-> None]
    /\ shapes_dict = GTFSDataStore.shapes_dict
    /\ trips = GTFSDataStore.trips
    /\ trip_shape_map = GTFSDataStore.trip_shape_map
    /\ trip_delays = GTFSDataStore.trip_delays
    /\ vehicle_feed = <<>>
    /\ trip_update_feed = <<>>

NextShapes == LoadStatic

SpecShapes == InitShapes /\ [][NextShapes]_vars

(***************************************************************************)
(* The refresh queue of a serving process, with the scheduling the server  *)
(* gives: a started coroutine runs on (every requests.get answers or hits  *)
(* its timeout of line 81), a free event loop handles a waiting request,   *)
(* and an enqueued background task is run.                                 *)
(***************************************************************************)
\* A process whose startup refresh succeeded on zip_A, vp_A and tu_A,
\* RT_MAX_AGE seconds ago: the cached feeds are stale, the archive is fresh.
\* The histories record this behaviour's runs and requests: they start empty.
InitServing ==
    /\ now = StartTime + RT_MAX_AGE
    /\ ticks = 0
    /\ files = [f \in CacheFiles |->
                   Some([mtime |-> StartTime,
                         body |-> CASE f = VEHICLE_POSITIONS_FILE -> "vp_A"
                                    [] f = TRIP_UPDATES_FILE -> "tu_A"
                                    [] OTHER -> "zip_A"])]
    /\ gtfs_dir = Some(ZipMembers("zip_A"))
    /\ shapes_dict = BuildShapesDict(ZipMembers("zip_A").shapes_txt)
    /\ trips = ZipMembers("zip_A").trips_txt
    /\ trip_shape_map = BuildTripShapeMap(ZipMembers("zip_A").trips_txt)
    /\ trip_delays = BuildTripDelays(FeedEntities("tu_A"))
    /\ vehicle_positions =
          BuildVehiclePositions(FeedEntities("vp_A"),
                                BuildTripDelays(FeedEntities("tu_A")),
                                BuildTripShapeMap(ZipMembers("zip_A").trips_txt),
                                BuildShapesDict(ZipMembers("zip_A").shapes_txt))
    /\ last_updated = Some(StartTime)
    /\ phase = "serving"
    /\ pc = "idle"
    /\ caller = "startup"
    /\ vehicle_feed = <<>>
    /\ trip_update_feed = <<>>
    /\ background_tasks = 0
    /\ pending = [k \in RequestKinds |-> 0]
    /\ response = NoResponse
    /\ acks = 0
    /\ tasks = 0
    /\ calls = EmptyDict
    /\ run = NoRun
    /\ written = NeverWritten
    /\ runs = 0

\* one step of a started coroutine
Stage ==
    \/ FetchVehiclePositions
    \/ FetchTripUpdates
    \/ FetchZip
    \/ Extract
    \/ LoadStatic
    \/ LoadFeeds
    \/ TripDelays
    \/ VehiclePositions
    \/ LastUpdated

NextLive ==
    \/ Stage
    \/ Arrive("update_data")
    \/ update_data
    \/ run_background_task

Fairness ==
    /\ WF_vars(Stage)
    /\ WF_vars(update_data)
    /\ WF_vars(run_background_task)

SpecLive == InitServing /\ [][NextLive]_vars /\ Fairness

(***************************************************************************)
(* Properties.                                                             *)
(***************************************************************************)
Errors == {"FetchError", "BadZipFile", "ParseError"}
Waiting == pending["vehicles"] + pending["data_status"]

\* C1: after a refresh run in which a stage raised, every field of the data
\* store has the value it had when the run started.
C1_FailedRunLeavesStore ==
    run.outcome \in Errors => run.changed = {}

\* C2: the vehicle list and the last_updated a read handler finds in the store
\* were assigned by the same refresh run, whenever the handler runs.
C2_ReadsSeeOneRun ==
    response.kind # "none" =>
        response.written.vehicle_positions = response.written.last_updated

\* C2 witness: a read answered from what the second run of the process assigned
C2_Witness ==
    /\ response.kind = "vehicles"
    /\ response.status = 200
    /\ response.written.vehicle_positions = 2
    /\ response.written.last_updated = 2

\* C3: a vehicles read fails with the no-data condition exactly when no refresh
\* has completed successfully, and the status read gives no last_updated exactly
\* then; after a successful refresh the vehicles read returns the store's list.
C3_NoDataOnlyBeforeFirstSuccess ==
    /\ response.kind = "vehicles" =>
          (response.status = 404 <=> response.written.last_updated = 0)
    /\ response.kind = "data_status" =>
          (response.body = None <=> response.written.last_updated = 0)

\* the cache slot a call found was absent, or at least max_age old
AbsentOrStale(call) ==
    \/ call.before = None
    \/ call.at - call.before[1].mtime >= call.max_age
Requested(call) == call.result \in {"raised", "written"}

\* C4: fetch_file requests the url, and writes filepath, only when filepath is
\* absent or its age is >= max_age; when filepath exists with a smaller age the
\* call makes no request and leaves the file's content and mtime as they were.
C4_FetchOnlyWhenAbsentOrStale ==
    \A f \in DOMAIN calls : \A i \in 1..Len(calls[f]) :
        LET call == calls[f][i]
        IN  /\ (Requested(call) \/ call.after # call.before) => AbsentOrStale(call)
            /\ ~AbsentOrStale(call) =>
                  (call.result = "fresh" /\ call.after = call.before)

\* C4 witness: a call that found a file one second younger than max_age and
\* returned early, after a call that had found the slot absent and written it
C4_Witness ==
    \E f \in DOMAIN calls :
        /\ Len(calls[f]) = 2
        /\ calls[f][1].before = None
        /\ calls[f][1].result = "written"
        /\ calls[f][2].at - calls[f][2].before[1].mtime = calls[f][2].max_age - 1
        /\ calls[f][2].result = "fresh"

\* the second of two consecutive calls for a file came less than max_age after
\* the first, which had found the slot absent or stale
TwoCallsWithinMaxAge(f) ==
    /\ Len(calls[f]) = 2
    /\ AbsentOrStale(calls[f][1])
    /\ calls[f][2].at - calls[f][1].at < calls[f][1].max_age
Retrievals(f) ==
    Cardinality({i \in 1..Len(calls[f]) : Requested(calls[f][i])})

\* C5 as claimed: two such calls make exactly one network request in total.
C5_OneRetrievalInTwoCalls ==
    \A f \in DOMAIN calls : TwoCallsWithinMaxAge(f) => Retrievals(f) = 1

\* C5 as amended: two such calls make exactly one network request in total when
\* the first call's download succeeded and the file was not deleted between the
\* two calls.
C5_OneRetrievalAfterSuccess ==
    \A f \in DOMAIN calls :
        (/\ TwoCallsWithinMaxAge(f)
         /\ calls[f][1].result = "written"
         /\ ~calls[f][1].removed)
        => Retrievals(f) = 1

\* C5 witness: the first call downloaded, the second came max_age - 1 later
C5_Witness ==
    \E f \in DOMAIN calls :
        /\ TwoCallsWithinMaxAge(f)
        /\ calls[f][1].result = "written"
        /\ ~calls[f][1].removed
        /\ calls[f][2].at - calls[f][1].at = calls[f][1].max_age - 1
        /\ calls[f][2].result = "fresh"

\* C6 as claimed: a run that finds the cached archive corrupt ends in an error
\* with the archive file deleted, and the run after it requests the archive.
C6_NextRunDownloadsArchive ==
    /\ run.outcome = "BadZipFile" => files[GTFS_ZIP_FILE] = None
    /\ (run.prev = "BadZipFile" /\ run.outcome \in Errors \cup {"ok"}) =>
          run.zip_call \in {"raised", "written"}

\* C6 as amended: a run that finds the cached archive corrupt ends in an error
\* with the archive file deleted; the slot stays absent until the next run calls
\* fetch_file for the archive, and that call requests the archive whatever the
\* clock says (it never takes the early return of a fresh file).
C6_NextArchiveFetchDownloads ==
    /\ run.outcome = "BadZipFile" => files[GTFS_ZIP_FILE] = None
    /\ (run.prev = "BadZipFile" /\ run.zip_call = "none") =>
          files[GTFS_ZIP_FILE] = None
    /\ (run.prev = "BadZipFile" /\ run.zip_call # "none") =>
          run.zip_call \in {"raised", "written"}

\* C6 witness: the run after a corrupt archive downloaded the archive again
C6_Witness ==
    /\ run.prev = "BadZipFile"
    /\ run.zip_call = "written"
    /\ files[GTFS_ZIP_FILE] # None
    /\ now - files[GTFS_ZIP_FILE][1].mtime < ZIP_MAX_AGE

\* C7: a read request that waits while a refresh run is at any stage before its
\* final store update can be answered without the run finishing first.
C7_ReadsNotBlockedByRefresh ==
    (/\ phase = "serving"
     /\ Waiting > 0
     /\ pc \notin {"idle", "vehicle_positions", "last_updated"})
    => LoopFree

\* C8: every refresh update_data enqueued was acknowledged with a 202 when it
\* was enqueued, so before its run started, whatever the run's outcome.
C8_AckBeforeRefresh ==
    /\ acks = tasks
    /\ run.task > 0 => run.task <= acks

\* C8 witness: an enqueued refresh failed; its acknowledgment had been returned
C8_Witness ==
    /\ run.task = 1
    /\ run.outcome = "FetchError"
    /\ acks = 1

\* C9: no read is answered, and none is accepted, unless the startup refresh of
\* the process completed successfully; after a failed startup refresh the
\* process does not serve.
C9_NoReadsBeforeStartupRefresh ==
    /\ phase = "serving" => written.last_updated # 0
    /\ phase # "serving" => (response.kind = "none" /\ Waiting = 0)
    /\ (caller = "startup" /\ run.outcome \in Errors) => phase # "serving"

\* C9 witness: a read answered by a process whose startup refresh succeeded,
\* started after an earlier process failed its startup refresh and exited
C9_Witness ==
    /\ response.kind = "vehicles"
    /\ caller = "startup"
    /\ run.outcome = "ok"
    /\ run.prev \in Errors

\* the delay the claim gives an entity: from its first stop-time update, the
\* arrival delay if present, otherwise the departure delay if present
HasArrivalDelay(stu) == stu.arrival.present /\ stu.arrival.has_delay
HasDepartureDelay(stu) == stu.departure.present /\ stu.departure.has_delay
Contributes(entity, delay) ==
    /\ entity.has_trip_update
    /\ Len(entity.stop_time_update) >= 1
    /\ LET stu == entity.stop_time_update[1]
       IN  \/ HasArrivalDelay(stu) /\ delay = stu.arrival.delay
           \/ ~HasArrivalDelay(stu) /\ HasDepartureDelay(stu)
              /\ delay = stu.departure.delay
ContributesNothing(entity) ==
    \/ ~entity.has_trip_update
    \/ entity.stop_time_update = <<>>
    \/ /\ ~HasArrivalDelay(entity.stop_time_update[1])
       /\ ~HasDepartureDelay(entity.stop_time_update[1])

\* C10: the delay map built from a feed holds, for an entity, the delay of its
\* first stop-time update (arrival before departure) under its trip_id, and
\* nothing for an entity whose first stop-time update has neither delay or that
\* has no stop-time update; later stop-time updates change nothing.
C10_DelayFromFirstStopTimeUpdate ==
    pc \in {"vehicle_positions", "last_updated"} =>
        /\ \A t \in DOMAIN trip_delays :
              \E i \in 1..Len(trip_update_feed) :
                  /\ trip_update_feed[i].trip_id = t
                  /\ Contributes(trip_update_feed[i], trip_delays[t])
        /\ \A i \in 1..Len(trip_update_feed) :
              ContributesNothing(trip_update_feed[i])
              \/ trip_update_feed[i].trip_id \in DOMAIN trip_delays

\* C10 witness: arrival without a delay, departure delay 42, and a second
\* stop-time update with an arrival delay: the map holds 42
C10_Witness ==
    /\ pc = "vehicle_positions"
    /\ Len(trip_update_feed) = 1
    /\ Len(trip_update_feed[1].stop_time_update) = 2
    /\ trip_update_feed[1].stop_time_update[1] = StopTimeUpdate(EventNoDelay, EventDelay(42))
    /\ trip_update_feed[1].stop_time_update[2] = StopTimeUpdate(EventDelay(60), NoEvent)
    /\ trip_delays = [t \in {trip_update_feed[1].trip_id} |-> 42]

\* the entities of the feed that give trip t a delay, by position
Yielding(t) ==
    {i \in 1..Len(trip_update_feed) :
        /\ trip_update_feed[i].has_trip_update
        /\ trip_update_feed[i].trip_id = t
        /\ ~ContributesNothing(trip_update_feed[i])}
Last(S) == CHOOSE i \in S : \A j \in S : j <= i

\* C11: for every trip_id the delay map holds one value exactly when some
\* entity of the feed yields a delay for it, and the value is the delay of the
\* last such entity in feed order; entities that yield no delay, before or
\* after it, neither add nor remove the entry.
C11_LastEntityWins ==
    pc = "vehicle_positions" =>
        \A t \in {"", "t1", "t2"} \cup DOMAIN trip_delays :
            IF Yielding(t) = {}
                THEN t \notin DOMAIN trip_delays
                ELSE /\ t \in DOMAIN trip_delays
                     /\ Contributes(trip_update_feed[Last(Yielding(t))],
                                    trip_delays[t])

\* C11 witness: delays 10 then 20 for t1, then an entity of t1 without a
\* stop-time update: the map holds 20 for t1 and nothing else
C11_Witness ==
    /\ pc = "vehicle_positions"
    /\ trip_update_feed =
          << TripUpdateEntity("t1", << StopTimeUpdate(EventDelay(10), NoEvent) >>),
             TripUpdateEntity("t1", << StopTimeUpdate(EventDelay(20), EventDelay(30)) >>),
             TripUpdateEntity("t1", <<>>) >>
    /\ trip_delays = [t \in {"t1"} |-> 20]

\* the entities of the vehicle feed that carry a vehicle payload, by position,
\* and the k-th of them in feed order
Payloads == {i \in 1..Len(vehicle_feed) : vehicle_feed[i].has_vehicle}
Nth(S, k) == CHOOSE i \in S : Cardinality({j \in S : j < i}) = k - 1

\* C12: the vehicle list the run stores has one record per entity with a
\* vehicle payload, in feed order, each with that entity's ids and position;
\* entities without a payload give no record and none with a payload is left
\* out, whatever its trip's delay, shape mapping or shape points.
C12_OneRecordPerVehicle ==
    pc = "last_updated" =>
        /\ Len(vehicle_positions) = Cardinality(Payloads)
        /\ \A k \in 1..Len(vehicle_positions) :
              LET entity == vehicle_feed[Nth(Payloads, k)]
                  rec == vehicle_positions[k]
              IN  /\ rec.vehicle_id = entity.vehicle_id
                  /\ rec.route_id = entity.route_id
                  /\ rec.trip_id = entity.trip_id
                  /\ rec.position = [latitude |-> entity.latitude,
                                     longitude |-> entity.longitude]

\* C12 witness: a payload-less entity is skipped and a vehicle whose trip has
\* no delay and no shape is kept
C12_Witness ==
    /\ pc = "last_updated"
    /\ Len(vehicle_feed) = 2
    /\ ~vehicle_feed[1].has_vehicle
    /\ vehicle_feed[2].has_vehicle
    /\ vehicle_feed[2].trip_id \notin DOMAIN trip_shape_map \cup DOMAIN trip_delays
    /\ Len(vehicle_positions) = 1
    /\ vehicle_positions[1].vehicle_id = vehicle_feed[2].vehicle_id

\* C13: a record whose entity's trip_id has no entry in the trip-to-shape map
\* has no shape_id and no shape points, and a record has no delay_seconds
\* exactly when its entity's trip_id has no entry in the run's delay map.
C13_AbsentWithoutMapping ==
    pc = "last_updated" =>
        \A k \in 1..Len(vehicle_positions) :
            LET entity == vehicle_feed[Nth(Payloads, k)]
                rec == vehicle_positions[k]
            IN  /\ entity.trip_id \notin DOMAIN trip_shape_map =>
                      (rec.shape_id = None /\ rec.shape_points = <<>>)
                /\ rec.delay_seconds = None <=>
                      entity.trip_id \notin DOMAIN trip_delays

\* C13 witness: one vehicle with a delay of 0 and a shape, one with neither
C13_Witness ==
    /\ pc = "last_updated"
    /\ Len(vehicle_positions) = 2
    /\ vehicle_positions[1].delay_seconds = Some(0)
    /\ vehicle_positions[1].shape_points # <<>>
    /\ vehicle_positions[2].delay_seconds = None
    /\ vehicle_positions[2].shape_id = None
    /\ shapes_dict # EmptyDict

\* C15: the shape points of a stored record, when there are any, are the point
\* sequence the shape index of the same run holds under the record's shape_id.
C15_PointsOfNamedShape ==
    \A k \in 1..Len(vehicle_positions) :
        LET rec == vehicle_positions[k]
        IN  rec.shape_points # <<>> =>
                /\ rec.shape_id # None
                /\ rec.shape_id[1] \in DOMAIN shapes_dict
                /\ rec.shape_points = shapes_dict[rec.shape_id[1]]

\* C15 witness: two records with the points of two different shapes, and the
\* run has returned
C15_Witness ==
    /\ run.outcome = "ok"
    /\ Len(vehicle_positions) = 2
    /\ vehicle_positions[1].shape_id = Some("s2")
    /\ vehicle_positions[2].shape_id = Some("s1")
    /\ Len(vehicle_positions[1].shape_points) = 1
    /\ Len(vehicle_positions[2].shape_points) = 2

\* the rows of shapes.txt with shape_id id, by position in the file
RowsOf(id) ==
    {i \in 1..Len(gtfs_dir[1].shapes_txt) : gtfs_dir[1].shapes_txt[i].shape_id = id}
\* pts holds the rows R of the file once each, ordered by sequence number,
\* rows of one sequence number in file order
SortedRows(pts, R) ==
    /\ Len(pts) = Cardinality(R)
    /\ \E perm \in [1..Len(pts) -> R] :
          /\ \A k, l \in 1..Len(pts) : k # l => perm[k] # perm[l]
          /\ \A k \in 1..Len(pts) :
                LET row == gtfs_dir[1].shapes_txt[perm[k]]
                IN  /\ pts[k].lat = ParseNumber(row.shape_pt_lat)
                    /\ pts[k].lon = ParseNumber(row.shape_pt_lon)
                    /\ pts[k].seq = ParseNumber(row.shape_pt_sequence)
          /\ \A k, l \in 1..Len(pts) :
                k < l => \/ pts[k].seq < pts[l].seq
                         \/ pts[k].seq = pts[l].seq /\ perm[k] < perm[l]

\* C14: once the shapes table is loaded, the index holds under every shape_id
\* of the file exactly that shape_id's rows, in non-decreasing order of
\* sequence number, rows of equal sequence number in file order.
C14_ShapePointsSorted ==
    (pc # "load_static" /\ ShapeRowsParse(gtfs_dir[1].shapes_txt)) =>
        /\ \A id \in {"s1", "s2"} : id \in DOMAIN shapes_dict <=> RowsOf(id) # {}
        /\ \A id \in DOMAIN shapes_dict : SortedRows(shapes_dict[id], RowsOf(id))

\* C14 witness: three rows of one shape out of order, two of them with the
\* same sequence number
C14_Witness ==
    /\ pc = "load_feeds"
    /\ gtfs_dir[1].shapes_txt =
          << ShapeRow("s1", <<2>>, <<3>>, <<1, 0>>),
             ShapeRow("s1", <<1>>, <<3>>, <<1, 0>>),
             ShapeRow("s1", <<1>>, <<3>>, <<2>>) >>
    /\ shapes_dict =
          [id \in {"s1"} |-> << [lat |-> 1, lon |-> 3, seq |-> 2],
                                [lat |-> 2, lon |-> 3, seq |-> 10],
                                [lat |-> 1, lon |-> 3, seq |-> 10] >>]

\* the stages of a run in the order of the claim: the three fetches, the
\* extraction and the parse of the static tables, the parse of the realtime
\* feeds, the fusion (delays, then vehicles), the store update
StageOrder ==
    << "fetch_vehicle_positions", "fetch_trip_updates", "fetch_zip", "extract",
       "load_static", "load_feeds", "trip_delays", "vehicle_positions",
       "last_updated" >>
\* the stage the run is at cannot succeed on what the cache holds
StageMustFail ==
    \/ pc = "extract" /\ ~IsZip(files[GTFS_ZIP_FILE][1].body)
    \/ /\ pc = "load_feeds"
       /\ \/ ~IsFeed(files[VEHICLE_POSITIONS_FILE][1].body)
          \/ ~IsFeed(files[TRIP_UPDATES_FILE][1].body)
C16_Step ==
    /\ pc' # pc =>
          \/ pc = "idle" /\ pc' = StageOrder[1] /\ run'.id = run.id + 1
          \/ /\ \E k \in 1..(Len(StageOrder) - 1) :
                    pc = StageOrder[k] /\ pc' = StageOrder[k + 1]
             /\ run'.outcome = "running"
             /\ ~StageMustFail
          \/ /\ pc' = "idle"
             /\ run'.outcome \in Errors \cup {"ok"}
             /\ run'.outcome = "ok" <=> pc = StageOrder[Len(StageOrder)]
    /\ (run.outcome = "running" /\ run'.outcome \in Errors) =>
          /\ pc' = "idle"
          /\ caller = "startup" => phase' = "exited"
          /\ caller = "background" => phase' = phase
    /\ (run.outcome \in Errors /\ run'.id = run.id) =>
          /\ UNCHANGED <<files, gtfs_dir, pc, run>>
          /\ phase' = phase => UNCHANGED store
    /\ pc = "idle" => UNCHANGED <<files, gtfs_dir>>

\* C16: a run goes through its stages in the one order fetch vehicle
\* positions, fetch trip updates, fetch archive, extract and parse the static
\* tables, parse the feeds, fuse, update the store; a stage that fails ends the
\* run there, the error raised to whoever awaits the run (a failed startup run
\* ends the process), and until another run begins nothing requests, writes
\* or extracts.
C16_StagesInOrderAbortOnFailure == [][C16_Step]_vars

\* C16 witness: a background run ended at the parse of the feeds, past the
\* extraction of an archive it had downloaded itself
C16_Witness ==
    /\ pc = "idle"
    /\ caller = "background"
    /\ run.outcome = "ParseError"
    /\ run.zip_call = "written"
    /\ phase = "serving"
    /\ last_updated # None

\* the store holds static tables: some run of this process has loaded them
StaticLoaded ==
    \/ shapes_dict # GTFSDataStore.shapes_dict
    \/ trips # GTFSDataStore.trips
    \/ trip_shape_map # GTFSDataStore.trip_shape_map

\* C17: a run extracts the archive and parses the static tables again only if
\* it downloaded the archive itself or the store holds no static tables yet;
\* with a fresh cached archive and loaded tables it goes on without extracting.
C17_ReparseOnlyWhenNeeded ==
    pc = "load_static" => (run.zip_call = "written" \/ ~StaticLoaded)

Finished == Errors \cup {"ok"}
\* a run begins only once the run before it has ended; it is the next run, and
\* a background run is the run of the next enqueued task
NoRunInterrupted ==
    run'.id # run.id =>
        /\ run.outcome # "running"
        /\ run'.id = run.id + 1
        /\ caller' = "background" => run'.task = run.task + 1

\* C18: one run executes at a time: a run begins only after the run before it
\* has ended, so a refresh requested while a run is in flight leaves that run
\* to go on and becomes a later run; every run that has started ends, in
\* success or in an error; every waiting refresh request is handled, and
\* every enqueued task becomes, in its turn, a run that ends.
C18_OneRunAtATimeAllEnd ==
    /\ [][NoRunInterrupted]_vars
    /\ (run.outcome = "running") ~> (run.outcome \in Finished)
    /\ (pending["update_data"] > 0) ~> (pending["update_data"] = 0)
    /\ (run.task # tasks) ~> (run.task = tasks /\ run.outcome \in Finished)

\* C18 witness: a refresh request waits while a background run, not
\* interrupted, is at its last stage
C18_Witness ==
    /\ pc = "last_updated"
    /\ run.task = 1
    /\ run.outcome = "running"
    /\ pending["update_data"] = 1

\* C19: a fetch_file call whose download failed raised, and it left the cache
\* slot as it found it: absent if it was absent, otherwise the same content
\* and the same modification time; and it was a call that had to download.
C19_FailedFetchLeavesSlot ==
    \A f \in DOMAIN calls : \A i \in 1..Len(calls[f]) :
        calls[f][i].result = "raised" =>
            /\ calls[f][i].after = calls[f][i].before
            /\ AbsentOrStale(calls[f][i])

\* C19 witness: a download failed over a stale file that an earlier call had
\* written; the file is as that call left it
C19_Witness ==
    \E f \in DOMAIN calls :
        /\ Len(calls[f]) = 2
        /\ calls[f][1].result = "written"
        /\ calls[f][2].result = "raised"
        /\ calls[f][2].before # None
        /\ files[f] = calls[f][1].after
        /\ now - files[f][1].mtime >= calls[f][2].max_age

\* a new process: the store is constructed again (line 61)
NewProcess == phase = "exited" /\ phase' = "starting"
C20_Step ==
    /\ vehicle_positions' # vehicle_positions =>
          \/ pc = "vehicle_positions" /\ pc' = "last_updated"
          \/ NewProcess /\ vehicle_positions' = GTFSDataStore.vehicle_positions
    /\ last_updated' # last_updated =>
          \/ pc = "last_updated" /\ run'.outcome = "ok" /\ last_updated' # None
          \/ NewProcess /\ last_updated' = GTFSDataStore.last_updated
    /\ (pc = "last_updated" /\ pc' # pc) =>
          (run'.outcome = "ok" /\ last_updated' = Some(now))
    /\ (run.outcome = "running" /\ run'.outcome \in Errors) =>
          /\ vehicle_positions' = run.before.vehicle_positions
          /\ last_updated' = run.before.last_updated
C20_State ==
    /\ last_updated # None <=> written.last_updated # 0
    /\ pc # "last_updated" => written.vehicle_positions = written.last_updated
    /\ run.outcome \in Errors =>
          run.changed \cap {"vehicle_positions", "last_updated"} = {}

\* C20: the vehicle list and last_updated are assigned only by the last two
\* statements of a run whose stages all succeeded, the one right after the
\* other with nothing in between that can fail; a run that fails ends with both
\* as they were when it began; last_updated is set exactly when some run of
\* the process has succeeded.
C20_SnapshotChangesOnlyOnSuccess ==
    /\ []C20_State
    /\ [][C20_Step]_vars

\* C20 witness: the second run failed after it had replaced the static
\* tables; the list and last_updated are those of the first run
C20_Witness ==
    /\ run.id = 2
    /\ run.outcome \in Errors
    /\ run.changed # {}
    /\ written = [vehicle_positions |-> 1, last_updated |-> 1]
    /\ vehicle_positions # <<>>
    /\ last_updated # None

====
